---- MODULE Spec2Model ----
(***************************************************************************)
(* The request builders and response decoders of rs-es:                    *)
(*   src/src/operations/delete.rs  DeleteOperation, DeleteByQueryOperation *)
(*   src/src/operations/search.rs  SearchURIOperation, SearchQueryOperation*)
(* One builder is constructed (Init), configured by chained with_* calls,  *)
(* and consumed by send, which issues one request through the client and   *)
(* turns the (status, body) reply into the result handed to the caller.    *)
(***************************************************************************)
EXTENDS Integers, Sequences, FiniteSets, TLC

\* The number of builder calls made before send.
MaxCalls == 2

VARIABLES
    op,             \* the operation struct being built (fields depend on op.kind)
    pc,             \* "built" until send is called, "sent" after it returned/aborted
    calls,          \* history of the builder calls made, in call order
    requests,       \* the requests issued through the client, in order
    reply,          \* Option: what the client returned for the request
    outcome,        \* Option: what send handed back to the caller
    successfulRet,  \* Option: return value of DeleteByQueryResult::successful
    sourceRet       \* Option: [hit, ret] of a SearchHitsHitsResult::source call

vars == <<op, pc, calls, requests, reply, outcome, successfulRet, sourceRet>>

(***************************************************************************)
(* Option<T> and Result<T, E>                                              *)
(***************************************************************************)
None == <<>>
Some(x) == <<x>>
IsSome(o) == o # <<>>
IsNone(o) == o = <<>>
Unwrapped(o) == o[1]

\* What a call can end in: a returned Ok, a returned Err, or a panic (abort
\* of the calling thread: Option::unwrap / Result::unwrap on None / Err).
Ok(v) == [tag |-> "Ok", v |-> v]
Err(e) == [tag |-> "Err", e |-> e]
Panicked == [tag |-> "Panic"]

\* A From<&Json> conversion has no error return: it yields the value or panics.
PANIC == [t |-> "Panic"]

\* EsError::EsError(format!("Unexpected status: {}", status_code))
UnexpectedStatus(status_code) ==
    [kind |-> "EsError", msg |-> "Unexpected status: {}", status |-> status_code]

\* EsError::EsError("No source field".to_string())
NoSourceField == [kind |-> "EsError", msg |-> "No source field"]

\* The error try! propagates from the client call.
TransportError == [kind |-> "Transport"]

\* The error decode_json returns.
DecodeError == [kind |-> "Decode"]

(***************************************************************************)
(* Json trees                                                              *)
(***************************************************************************)
JNull == [t |-> "Null"]
JBool(b) == [t |-> "Boolean", b |-> b]
JI64(n) == [t |-> "I64", i |-> n]
\* f64 values are written in tenths (5 stands for 0.5).
JF64(n) == [t |-> "F64", f |-> n]
JString(s) == [t |-> "String", s |-> s]
JArray(a) == [t |-> "Array", a |-> a]
JObject(m) == [t |-> "Object", o |-> m]
EmptyMap == [k \in {} |-> JNull]

\* Json::find: the value under key of an object, None for a missing key or
\* a tree that is not an object.
find(r, key) ==
    IF r.t = "Object" /\ key \in DOMAIN r.o THEN Some(r.o[key]) ELSE None

\* BTreeMap::insert / HashMap::insert
insert(d, k, v) == [x \in (DOMAIN d) \cup {k} |-> IF x = k THEN v ELSE d[x]]

\* Json::as_boolean, as_string, as_i64, as_f64, as_object, as_array
as(j, ty) ==
    CASE ty = "f64" -> IF j.t = "F64" THEN Some(j.f)
                       ELSE IF j.t = "I64" THEN Some(j.i) ELSE None
      [] ty = "i64" -> IF j.t = "I64" THEN Some(j.i) ELSE None
      [] ty = "bool" -> IF j.t = "Boolean" THEN Some(j.b) ELSE None
      [] ty = "string" -> IF j.t = "String" THEN Some(j.s) ELSE None
      [] ty = "object" -> IF j.t = "Object" THEN Some(j.o) ELSE None
      [] ty = "array" -> IF j.t = "Array" THEN Some(j.a) ELSE None

\* get_json_bool!, get_json_string!, get_json_i64!, get_json_f64!: the
\* required field of that type, None standing for the hard failure.
get_json_thing(r, key, ty) ==
    IF IsNone(find(r, key)) THEN None ELSE as(Unwrapped(find(r, key)), ty)

\* decode_json::<ShardCountResult>
decode_json_ShardCountResult(j) ==
    IF /\ IsSome(get_json_thing(j, "total", "i64"))
       /\ IsSome(get_json_thing(j, "successful", "i64"))
       /\ IsSome(get_json_thing(j, "failed", "i64"))
    THEN Ok([total |-> j.o["total"].i,
             successful |-> j.o["successful"].i,
             failed |-> j.o["failed"].i])
    ELSE Err(DecodeError)

(***************************************************************************)
(* Response decoders (From<&Json>)                                         *)
(***************************************************************************)
\* impl From<&Json> for DeleteResult
DeleteResult_from(r) ==
    LET found == get_json_thing(r, "found", "bool")
        index == get_json_thing(r, "_index", "string")
        doc_type == get_json_thing(r, "_type", "string")
        id == get_json_thing(r, "_id", "string")
        version == get_json_thing(r, "_version", "i64")
    IN  IF \/ IsNone(found) \/ IsNone(index) \/ IsNone(doc_type)
           \/ IsNone(id) \/ IsNone(version)
        THEN PANIC
        ELSE [t |-> "DeleteResult",
              found |-> Unwrapped(found),
              index |-> Unwrapped(index),
              doc_type |-> Unwrapped(doc_type),
              id |-> Unwrapped(id),
              version |-> Unwrapped(version)]

\* impl From<&Json> for DeleteByQueryIndexResult
DeleteByQueryIndexResult_from(r) ==
    IF IsNone(find(r, "_shards"))
    THEN PANIC
    ELSE LET d == decode_json_ShardCountResult(Unwrapped(find(r, "_shards")))
         IN  IF d.tag = "Ok"
             THEN [t |-> "DeleteByQueryIndexResult", shards |-> d.v]
             ELSE PANIC

\* The loop of DeleteByQueryResult::from over the keys still to visit: each
\* (k, v) is decoded and inserted into indices_map; a panic ends the loop.
RECURSIVE indices_loop(_, _, _)
indices_loop(indices, todo, indices_map) ==
    IF todo = {}
    THEN [t |-> "DeleteByQueryResult", indices |-> indices_map]
    ELSE LET k == CHOOSE x \in todo : TRUE
             e == DeleteByQueryIndexResult_from(indices[k])
         IN  IF e = PANIC
             THEN PANIC
             ELSE indices_loop(indices, todo \ {k}, insert(indices_map, k, e))

\* impl From<&Json> for DeleteByQueryResult
DeleteByQueryResult_from(r) ==
    IF IsNone(find(r, "_indices"))
    THEN PANIC
    ELSE LET indices == as(Unwrapped(find(r, "_indices")), "object")
         IN  IF IsNone(indices)
             THEN PANIC
             ELSE indices_loop(Unwrapped(indices), DOMAIN Unwrapped(indices),
                               EmptyMap)

\* Mutant: an index counts as successful once any shard succeeded.
M_DeleteByQueryIndexResult_successful_any(self) == self.shards.successful > 0

\* DeleteByQueryIndexResult::successful
DeleteByQueryIndexResult_successful(self) == self.shards.failed = 0

\* DeleteByQueryResult::successful, the map's values visited in the given
\* order (a HashMap fixes none): false at the first failing index.
RECURSIVE DeleteByQueryResult_successful(_, _)
DeleteByQueryResult_successful(self, order) ==
    IF order = <<>>
    THEN TRUE
    ELSE IF ~DeleteByQueryIndexResult_successful(self.indices[Head(order)])
         THEN FALSE
         ELSE DeleteByQueryResult_successful(self, Tail(order))

\* Mutant: `fields` is read from the `_source` key.
M_SearchHitsHitsResult_from_copied_key(r) ==
    LET index == get_json_thing(r, "_index", "string")
        doc_type == get_json_thing(r, "_type", "string")
        id == get_json_thing(r, "_id", "string")
        score == get_json_thing(r, "_score", "f64")
    IN  IF IsNone(index) \/ IsNone(doc_type) \/ IsNone(id) \/ IsNone(score)
        THEN PANIC
        ELSE [t |-> "SearchHitsHitsResult",
              index |-> Unwrapped(index),
              doc_type |-> Unwrapped(doc_type),
              id |-> Unwrapped(id),
              score |-> Unwrapped(score),
              source |-> find(r, "_source"),
              fields |-> find(r, "_source")]

\* impl From<&Json> for SearchHitsHitsResult
SearchHitsHitsResult_from(r) ==
    LET index == get_json_thing(r, "_index", "string")
        doc_type == get_json_thing(r, "_type", "string")
        id == get_json_thing(r, "_id", "string")
        score == get_json_thing(r, "_score", "f64")
    IN  IF IsNone(index) \/ IsNone(doc_type) \/ IsNone(id) \/ IsNone(score)
        THEN PANIC
        ELSE [t |-> "SearchHitsHitsResult",
              index |-> Unwrapped(index),
              doc_type |-> Unwrapped(doc_type),
              id |-> Unwrapped(id),
              score |-> Unwrapped(score),
              source |-> find(r, "_source"),
              fields |-> find(r, "fields")]

\* impl From<&Json> for SearchHitsResult
SearchHitsResult_from(r) ==
    LET total == get_json_thing(r, "total", "i64")
    IN  IF IsNone(total) \/ IsNone(find(r, "hits"))
        THEN PANIC
        ELSE LET a == as(Unwrapped(find(r, "hits")), "array")
             IN  IF IsNone(a)
                 THEN PANIC
                 ELSE LET hs == [i \in 1..Len(Unwrapped(a)) |->
                                   SearchHitsHitsResult_from(Unwrapped(a)[i])]
                      IN  IF \E i \in 1..Len(hs) : hs[i] = PANIC
                          THEN PANIC
                          ELSE [t |-> "SearchHitsResult",
                                total |-> Unwrapped(total),
                                hits |-> hs]

\* impl From<&Json> for SearchResult
SearchResult_from(r) ==
    IF IsNone(find(r, "_shards"))
    THEN PANIC
    ELSE LET d == decode_json_ShardCountResult(Unwrapped(find(r, "_shards")))
         IN  IF d.tag # "Ok" \/ IsNone(find(r, "hits"))
             THEN PANIC
             ELSE LET h == SearchHitsResult_from(Unwrapped(find(r, "hits")))
                  IN  IF h = PANIC
                      THEN PANIC
                      ELSE [t |-> "SearchResult", shards |-> d.v, hits |-> h]

\* decode_json::<T> for the caller's document type T, a struct with one
\* integer field `a`.
decode_json_T(j) ==
    IF IsSome(get_json_thing(j, "a", "i64"))
    THEN Ok([a |-> j.o["a"].i])
    ELSE Err(DecodeError)

\* SearchHitsHitsResult::source
SearchHitsHitsResult_source(self) ==
    IF IsSome(self.source)
    THEN decode_json_T(Unwrapped(self.source))
    ELSE Err(NoSourceField)

(***************************************************************************)
(* Inputs: the values the caller passes and the replies the client gives   *)
(***************************************************************************)
\* Query strings
QueryStrings == {"a", "b c"}
\* val.to_string() of the values handed to the add_option! setters
SetterValues == {"x"}

\* The names the add_option! setters of each operation push.
DeleteOptionNames ==
    {"version", "routing", "parent", "consistency", "refresh", "timeout"}
DeleteByQueryOptionNames ==
    {"df", "analyzer", "default_operator", "routing", "consistency"}
SearchURIOptionNames ==
    {"df", "analyzer", "lowercase_expanded_terms", "analyze_wildcard",
     "default_operator", "lenient", "explain", "_source", "sort", "routing",
     "track_scores", "timeout", "terminate_after", "from", "size",
     "search_type"}
SearchQueryOptionNames == {"routing", "search_type", "query_cache"}

\* Index and type name slices
NameSlices == {<<"i1">>, <<"i1", "i2">>}
\* Field name slices
FieldSlices == {<<>>, <<"f">>, <<"f", "g">>}
\* Stats group slices
StatsSlices == {<<>>, <<"s1", "s2">>}
\* i64 / f64 arguments
Numbers == {0, 7}

\* Query values and Query::to_json
Queries == {"match_all", "term"}
Query_to_json(q) ==
    IF q = "match_all"
    THEN JObject("match_all" :> JObject(EmptyMap))
    ELSE JObject("term" :> JObject("user" :> JString("a")))

\* StatusCode values the server may answer with
Statuses == {200, 201, 404, 500}

ShardsJson(successful, failed) ==
    JObject("total" :> JI64(2) @@ "successful" :> JI64(successful)
            @@ "failed" :> JI64(failed))

\* Bodies answering a delete
DeleteBodies ==
    LET full(found) ==
            "found" :> JBool(found) @@ "_index" :> JString("foo")
            @@ "_type" :> JString("bar") @@ "_id" :> JString("1")
            @@ "_version" :> JI64(2)
    IN  {JObject(full(TRUE)), JObject(full(FALSE)),
         JObject([k \in DOMAIN full(TRUE) \ {"_version"} |-> full(TRUE)[k]]),
         JObject("_version" :> JString("2") @@ full(TRUE)),
         JString("oops")}

\* Bodies answering a delete-by-query
DeleteByQueryBodies ==
    LET entry(s, f) == JObject("_shards" :> ShardsJson(s, f))
    IN  {JObject("_indices" :> JObject(m)) :
            m \in UNION {[S -> {entry(2, 0), entry(1, 0), entry(1, 1)}] :
                            S \in SUBSET {"i1", "i2"}}}
        \cup {JObject(EmptyMap),
              JObject("_indices" :> JString("i1")),
              JObject("_indices" :> JObject("i1" :> JObject(EmptyMap))),
              JObject("_indices" :>
                  JObject("i1" :> entry(2, 0)
                          @@ "i2" :> JObject("_shards" :>
                                        JObject("total" :> JI64(2)))))}

\* Hits of a search response
HitJson(source, fields) ==
    LET base == "_index" :> JString("foo") @@ "_type" :> JString("bar")
                @@ "_id" :> JString("1") @@ "_score" :> JF64(15)
        s == IF IsSome(source) THEN "_source" :> Unwrapped(source) ELSE EmptyMap
        f == IF IsSome(fields) THEN "fields" :> Unwrapped(fields) ELSE EmptyMap
    IN  JObject(s @@ f @@ base)

\* Bodies answering a search
SearchBodies ==
    LET doc == JObject("a" :> JI64(1))
        body(hs) == "_shards" :> ShardsJson(2, 0)
                    @@ "hits" :> JObject("total" :> JI64(Len(hs))
                                         @@ "hits" :> JArray(hs))
        good == body(<<HitJson(Some(doc), None)>>)
    IN  {JObject(body(<<>>)),
         JObject(good),
         JObject(body(<<HitJson(None, None), HitJson(Some(JNull), Some(JNull))>>)),
         JObject(body(<<HitJson(Some(JObject(EmptyMap)), None),
                        HitJson(None, Some(JObject(EmptyMap)))>>)),
         JObject(body(<<HitJson(Some(doc), Some(doc)),
                        JObject("_index" :> JString("foo"))>>)),
         JObject([k \in {"hits"} |-> good[k]]),
         JObject([k \in {"_shards"} |-> good[k]]),
         JObject("hits" :> JObject("total" :> JI64(0)) @@ good),
         JObject("hits" :> JObject("total" :> JI64(0) @@ "hits" :> JNull)
                 @@ good)}

\* What the client returns: Err(transport error), or Ok((status, body)) with
\* a body that may be absent.
Replies(bodies) ==
    {[err |-> TRUE]}
    \cup {[err |-> FALSE, status |-> s, body |-> b] :
            s \in Statuses, b \in {None} \cup {Some(j) : j \in bodies}}

(***************************************************************************)
(* Request builders                                                        *)
(***************************************************************************)
StatusCode_Ok == 200
StatusCode_NotFound == 404

\* Options::new()
Options_new == <<>>

\* The method add_option!(with_x, name) defines: push (name, val.to_string())
add_option(self, name, val) ==
    [self EXCEPT !.options = Append(@, <<name, val>>)]

\* iter().join(",")
RECURSIVE join(_, _)
join(strs, sep) ==
    IF strs = <<>> THEN ""
    ELSE IF Len(strs) = 1 THEN Head(strs)
    ELSE Head(strs) \o sep \o join(Tail(strs), sep)

\* value.to_json() for the types the request bodies hold
to_json(ty, value) ==
    CASE ty = "Query" -> Query_to_json(value)
      [] ty = "str" -> JString(value)
      [] ty = "i64" -> JI64(value)
      [] ty = "f64" -> JF64(value)
      [] ty = "Vec<String>" -> JArray([i \in 1..Len(value) |-> JString(value[i])])

\* optional_add!(d, sn, field): the key is written only for a Some
optional_add(d, ty, sn, field) ==
    IF IsSome(sn) THEN insert(d, field, to_json(ty, Unwrapped(sn))) ELSE d

\* DeleteOperation::new
DeleteOperation_new(index, doc_type, id) ==
    [kind |-> "DeleteOperation", index |-> index, doc_type |-> doc_type,
     id |-> id, options |-> Options_new]

\* enum QueryOption
QueryOption_String(s) == [tag |-> "String", s |-> s]
QueryOption_Document(d) == [tag |-> "Document", d |-> d]

\* impl ToJson for DeleteByQueryBody
DeleteByQueryBody_to_json(self) ==
    JObject(insert(EmptyMap, "query", Query_to_json(self.query)))

\* DeleteByQueryOperation::new
DeleteByQueryOperation_new ==
    [kind |-> "DeleteByQueryOperation", indexes |-> <<>>, doc_types |-> <<>>,
     query |-> QueryOption_String(""), options |-> Options_new]

\* Mutant: the query string is folded into the options when it is set.
M_DeleteByQueryOperation_with_query_string_push(self, qs) ==
    [self EXCEPT !.query = QueryOption_String(qs),
                 !.options = Append(@, <<"q", qs>>)]

\* DeleteByQueryOperation::with_query_string
DeleteByQueryOperation_with_query_string(self, qs) ==
    [self EXCEPT !.query = QueryOption_String(qs)]

\* DeleteByQueryOperation::with_query
DeleteByQueryOperation_with_query(self, q) ==
    [self EXCEPT !.query = QueryOption_Document([query |-> q])]

\* SearchURIOperation::new
SearchURIOperation_new ==
    [kind |-> "SearchURIOperation", indexes |-> <<>>, doc_types |-> <<>>,
     options |-> Options_new]

\* Mutant: a second with_query replaces the "q" pair already there.
M_SearchURIOperation_with_query_replace(self, qs) ==
    IF \E i \in 1..Len(self.options) : self.options[i][1] = "q"
    THEN [self EXCEPT !.options =
            [i \in 1..Len(@) |-> IF @[i][1] = "q" THEN <<"q", qs>> ELSE @[i]]]
    ELSE [self EXCEPT !.options = Append(@, <<"q", qs>>)]

\* SearchURIOperation::with_query
SearchURIOperation_with_query(self, qs) ==
    [self EXCEPT !.options = Append(@, <<"q", qs>>)]

\* SearchURIOperation::with_fields
SearchURIOperation_with_fields(self, fields) ==
    [self EXCEPT !.options = Append(@, <<"fields", join(fields, ",")>>)]

\* with_indexes and with_doc_types / with_types
DeleteByQueryOperation_with_indexes(self, indexes) ==
    [self EXCEPT !.indexes = indexes]
DeleteByQueryOperation_with_doc_types(self, doc_types) ==
    [self EXCEPT !.doc_types = doc_types]
SearchURIOperation_with_indexes(self, indexes) ==
    [self EXCEPT !.indexes = indexes]
SearchURIOperation_with_types(self, doc_types) ==
    [self EXCEPT !.doc_types = doc_types]
SearchQueryOperation_with_indexes(self, indexes) ==
    [self EXCEPT !.indexes = indexes]
SearchQueryOperation_with_types(self, doc_types) ==
    [self EXCEPT !.doc_types = doc_types]

\* SearchQueryOperation::new
SearchQueryOperation_new ==
    [kind |-> "SearchQueryOperation", indexes |-> <<>>, doc_types |-> <<>>,
     options |-> Options_new,
     body |-> [query |-> None, timeout |-> None, from |-> 0, size |-> 10,
               terminate_after |-> None, stats |-> None, min_score |-> None]]

\* SearchQueryOperation::with_query, with_timeout, with_from, with_size,
\* with_terminate_after, with_stats, with_min_score
SearchQueryOperation_with_query(self, query) ==
    [self EXCEPT !.body.query = Some(query)]
SearchQueryOperation_with_timeout(self, timeout) ==
    [self EXCEPT !.body.timeout = Some(timeout)]
SearchQueryOperation_with_from(self, from) ==
    [self EXCEPT !.body.from = from]
SearchQueryOperation_with_size(self, size) ==
    [self EXCEPT !.body.size = size]
SearchQueryOperation_with_terminate_after(self, terminate_after) ==
    [self EXCEPT !.body.terminate_after = Some(terminate_after)]
SearchQueryOperation_with_stats(self, stats) ==
    [self EXCEPT !.body.stats = Some(stats)]
SearchQueryOperation_with_min_score(self, min_score) ==
    [self EXCEPT !.body.min_score = Some(min_score)]

\* Mutant: the timeout is written under the key of the next line.
M_SearchQueryOperationBody_to_json_copied_key(self) ==
    LET d0 == insert(EmptyMap, "from", to_json("i64", self.from))
        d1 == insert(d0, "size", to_json("i64", self.size))
        d2 == optional_add(d1, "Query", self.query, "query")
        d3 == optional_add(d2, "str", self.timeout, "terminate_after")
        d4 == optional_add(d3, "i64", self.terminate_after, "terminate_after")
        d5 == optional_add(d4, "Vec<String>", self.stats, "stats")
        d6 == optional_add(d5, "f64", self.min_score, "min_score")
    IN  JObject(d6)

\* impl ToJson for SearchQueryOperationBody
SearchQueryOperationBody_to_json(self) ==
    LET d0 == insert(EmptyMap, "from", to_json("i64", self.from))
        d1 == insert(d0, "size", to_json("i64", self.size))
        d2 == optional_add(d1, "Query", self.query, "query")
        d3 == optional_add(d2, "str", self.timeout, "timeout")
        d4 == optional_add(d3, "i64", self.terminate_after, "terminate_after")
        d5 == optional_add(d4, "Vec<String>", self.stats, "stats")
        d6 == optional_add(d5, "f64", self.min_score, "min_score")
    IN  JObject(d6)

(***************************************************************************)
(* send: the request issued and the result made of the reply               *)
(***************************************************************************)
\* The url is kept as the format string and its arguments: the path
\* arguments and the option list handed to format_query_string.
Url(fmt, path, options) == [fmt |-> fmt, path |-> path, query |-> options]

\* DeleteOperation::send, the request
DeleteOperation_request(self) ==
    [via |-> "delete_op",
     url |-> Url("/{}/{}/{}{}", <<self.index, self.doc_type, self.id>>,
                 self.options),
     body |-> None]

\* Mutant: the body is unwrapped before the status is looked at.
M_DeleteOperation_result_unwrap_first(rep) ==
    IF rep.err THEN Err(TransportError)
    ELSE IF IsNone(rep.body) THEN Panicked
    ELSE IF rep.status = StatusCode_Ok
    THEN LET v == DeleteResult_from(Unwrapped(rep.body))
         IN  IF v = PANIC THEN Panicked ELSE Ok(v)
    ELSE Err(UnexpectedStatus(rep.status))

\* DeleteOperation::send, the match on the reply
DeleteOperation_result(rep) ==
    IF rep.err THEN Err(TransportError)
    ELSE IF rep.status = StatusCode_Ok
    THEN IF IsNone(rep.body) THEN Panicked
         ELSE LET v == DeleteResult_from(Unwrapped(rep.body))
              IN  IF v = PANIC THEN Panicked ELSE Ok(v)
    ELSE Err(UnexpectedStatus(rep.status))

\* Mutant: "q" is pushed whichever the query's form.
M_DeleteByQueryOperation_options_always(self) ==
    Append(self.options,
           <<"q", IF self.query.tag = "String" THEN self.query.s ELSE "">>)

\* Mutant: "q" is put in front of the options.
M_DeleteByQueryOperation_options_prepend(self) ==
    IF self.query.tag = "Document"
    THEN self.options
    ELSE <<<<"q", self.query.s>>>> \o self.options

\* DeleteByQueryOperation::send, the option list after the first match:
\* the query string is pushed as "q", a document leaves the list alone.
DeleteByQueryOperation_options(self) ==
    IF self.query.tag = "Document"
    THEN self.options
    ELSE Append(self.options, <<"q", self.query.s>>)

\* DeleteByQueryOperation::send, the request
DeleteByQueryOperation_request(self) ==
    LET url == Url("/{}/_query{}", <<self.indexes, self.doc_types>>,
                   DeleteByQueryOperation_options(self))
    IN  IF self.query.tag = "Document"
        THEN [via |-> "delete_body_op", url |-> url,
              body |-> Some(DeleteByQueryBody_to_json(self.query.d))]
        ELSE [via |-> "delete_op", url |-> url, body |-> None]

\* DeleteByQueryOperation::send, the match on the reply
DeleteByQueryOperation_result(rep) ==
    IF rep.err THEN Err(TransportError)
    ELSE IF rep.status = StatusCode_Ok
    THEN IF IsNone(rep.body) THEN Panicked
         ELSE LET v == DeleteByQueryResult_from(Unwrapped(rep.body))
              IN  IF v = PANIC THEN Panicked ELSE Ok(Some(v))
    ELSE IF rep.status = StatusCode_NotFound
    THEN Ok(None)
    ELSE Err(UnexpectedStatus(rep.status))

\* SearchURIOperation::send, the request
SearchURIOperation_request(self) ==
    [via |-> "get_op",
     url |-> Url("/{}/_search{}", <<self.indexes, self.doc_types>>,
                 self.options),
     body |-> None]

\* SearchQueryOperation::send, the request
SearchQueryOperation_request(self) ==
    [via |-> "post_body_op",
     url |-> Url("/{}/_search{}", <<self.indexes, self.doc_types>>,
                 self.options),
     body |-> Some(SearchQueryOperationBody_to_json(self.body))]

\* SearchURIOperation::send, the match on the reply
SearchURIOperation_result(rep) ==
    IF rep.err THEN Err(TransportError)
    ELSE IF rep.status = StatusCode_Ok
    THEN IF IsNone(rep.body) THEN Panicked
         ELSE LET v == SearchResult_from(Unwrapped(rep.body))
              IN  IF v = PANIC THEN Panicked ELSE Ok(v)
    ELSE Err(UnexpectedStatus(rep.status))

\* SearchQueryOperation::send, the match on the reply
SearchQueryOperation_result(rep) ==
    IF rep.err THEN Err(TransportError)
    ELSE IF rep.status = StatusCode_Ok
    THEN IF IsNone(rep.body) THEN Panicked
         ELSE LET v == SearchResult_from(Unwrapped(rep.body))
              IN  IF v = PANIC THEN Panicked ELSE Ok(v)
    ELSE Err(UnexpectedStatus(rep.status))

(***************************************************************************)
(* The state machine                                                       *)
(***************************************************************************)
Init ==
    /\ op \in {DeleteOperation_new("foo", "bar", id) : id \in {"1", "2"}}
              \cup {DeleteByQueryOperation_new, SearchURIOperation_new,
                    SearchQueryOperation_new}
    /\ pc = "built"
    /\ calls = <<>>
    /\ requests = <<>>
    /\ reply = None
    /\ outcome = None
    /\ successfulRet = None
    /\ sourceRet = None

\* A chained builder call m(a) on an operation of the given kind.
Configure(kind, m, a, new) ==
    /\ pc = "built"
    /\ op.kind = kind
    /\ Len(calls) < MaxCalls
    /\ op' = new
    /\ calls' = Append(calls, [m |-> m, a |-> a])
    /\ UNCHANGED <<pc, requests, reply, outcome, successfulRet, sourceRet>>

\* send consumes the builder: one request, one reply, one result.
Sent(kind, new, req, rep, res) ==
    /\ pc = "built"
    /\ op.kind = kind
    /\ op' = new
    /\ requests' = Append(requests, req)
    /\ reply' = Some(rep)
    /\ outcome' = Some(res)
    /\ pc' = "sent"
    /\ UNCHANGED <<calls, successfulRet, sourceRet>>

DeleteOperation_add_option ==
    \E name \in DeleteOptionNames, val \in SetterValues :
        Configure("DeleteOperation", "add_option", <<name, val>>,
                  add_option(op, name, val))

DeleteOperation_send ==
    \E rep \in Replies(DeleteBodies) :
        Sent("DeleteOperation", op, DeleteOperation_request(op), rep,
             DeleteOperation_result(rep))

DeleteByQueryOperation_call_with_indexes ==
    \E indexes \in NameSlices :
        Configure("DeleteByQueryOperation", "with_indexes", indexes,
                  DeleteByQueryOperation_with_indexes(op, indexes))

DeleteByQueryOperation_call_with_doc_types ==
    \E doc_types \in NameSlices :
        Configure("DeleteByQueryOperation", "with_doc_types", doc_types,
                  DeleteByQueryOperation_with_doc_types(op, doc_types))

DeleteByQueryOperation_call_with_query_string ==
    \E qs \in QueryStrings :
        Configure("DeleteByQueryOperation", "with_query_string", qs,
                  DeleteByQueryOperation_with_query_string(op, qs))

DeleteByQueryOperation_call_with_query ==
    \E q \in Queries :
        Configure("DeleteByQueryOperation", "with_query", q,
                  DeleteByQueryOperation_with_query(op, q))

DeleteByQueryOperation_add_option ==
    \E name \in DeleteByQueryOptionNames, val \in SetterValues :
        Configure("DeleteByQueryOperation", "add_option", <<name, val>>,
                  add_option(op, name, val))

DeleteByQueryOperation_send ==
    \E rep \in Replies(DeleteByQueryBodies) :
        Sent("DeleteByQueryOperation",
             [op EXCEPT !.options = DeleteByQueryOperation_options(op)],
             DeleteByQueryOperation_request(op), rep,
             DeleteByQueryOperation_result(rep))

SearchURIOperation_call_with_indexes ==
    \E indexes \in NameSlices :
        Configure("SearchURIOperation", "with_indexes", indexes,
                  SearchURIOperation_with_indexes(op, indexes))

SearchURIOperation_call_with_types ==
    \E doc_types \in NameSlices :
        Configure("SearchURIOperation", "with_types", doc_types,
                  SearchURIOperation_with_types(op, doc_types))

SearchURIOperation_call_with_query ==
    \E qs \in QueryStrings :
        Configure("SearchURIOperation", "with_query", qs,
                  SearchURIOperation_with_query(op, qs))

SearchURIOperation_add_option ==
    \E name \in SearchURIOptionNames, val \in SetterValues :
        Configure("SearchURIOperation", "add_option", <<name, val>>,
                  add_option(op, name, val))

SearchURIOperation_call_with_fields ==
    \E fields \in FieldSlices :
        Configure("SearchURIOperation", "with_fields", fields,
                  SearchURIOperation_with_fields(op, fields))

SearchURIOperation_send ==
    \E rep \in Replies(SearchBodies) :
        Sent("SearchURIOperation", op, SearchURIOperation_request(op), rep,
             SearchURIOperation_result(rep))

SearchQueryOperation_call_with_indexes ==
    \E indexes \in NameSlices :
        Configure("SearchQueryOperation", "with_indexes", indexes,
                  SearchQueryOperation_with_indexes(op, indexes))

SearchQueryOperation_call_with_types ==
    \E doc_types \in NameSlices :
        Configure("SearchQueryOperation", "with_types", doc_types,
                  SearchQueryOperation_with_types(op, doc_types))

SearchQueryOperation_call_with_query ==
    \E query \in Queries :
        Configure("SearchQueryOperation", "with_query", query,
                  SearchQueryOperation_with_query(op, query))

SearchQueryOperation_call_with_timeout ==
    \E timeout \in {"1s"} :
        Configure("SearchQueryOperation", "with_timeout", timeout,
                  SearchQueryOperation_with_timeout(op, timeout))

SearchQueryOperation_call_with_from ==
    \E from \in Numbers :
        Configure("SearchQueryOperation", "with_from", from,
                  SearchQueryOperation_with_from(op, from))

SearchQueryOperation_call_with_size ==
    \E size \in Numbers :
        Configure("SearchQueryOperation", "with_size", size,
                  SearchQueryOperation_with_size(op, size))

SearchQueryOperation_call_with_terminate_after ==
    \E terminate_after \in Numbers :
        Configure("SearchQueryOperation", "with_terminate_after",
                  terminate_after,
                  SearchQueryOperation_with_terminate_after(op, terminate_after))

SearchQueryOperation_call_with_stats ==
    \E stats \in StatsSlices :
        Configure("SearchQueryOperation", "with_stats", stats,
                  SearchQueryOperation_with_stats(op, stats))

SearchQueryOperation_call_with_min_score ==
    \E min_score \in Numbers :
        Configure("SearchQueryOperation", "with_min_score", min_score,
                  SearchQueryOperation_with_min_score(op, min_score))

SearchQueryOperation_add_option ==
    \E name \in SearchQueryOptionNames, val \in SetterValues :
        Configure("SearchQueryOperation", "add_option", <<name, val>>,
                  add_option(op, name, val))

SearchQueryOperation_send ==
    \E rep \in Replies(SearchBodies) :
        Sent("SearchQueryOperation", op, SearchQueryOperation_request(op), rep,
             SearchQueryOperation_result(rep))

\* The orders in which a map with these keys can be iterated
Orders(keys) ==
    {o \in [1..Cardinality(keys) -> keys] :
        \A i, j \in 1..Cardinality(keys) : o[i] = o[j] => i = j}

\* The caller asks a delete-by-query result whether it was successful.
Call_DeleteByQueryResult_successful ==
    /\ pc = "sent"
    /\ op.kind = "DeleteByQueryOperation"
    /\ successfulRet = None
    /\ Unwrapped(outcome).tag = "Ok"
    /\ IsSome(Unwrapped(outcome).v)
    /\ LET self == Unwrapped(Unwrapped(outcome).v)
       IN  \E order \in Orders(DOMAIN self.indices) :
             successfulRet' = Some(DeleteByQueryResult_successful(self, order))
    /\ UNCHANGED <<op, pc, calls, requests, reply, outcome, sourceRet>>

\* The caller takes the typed source of one hit of a search result.
Call_SearchHitsHitsResult_source ==
    /\ pc = "sent"
    /\ op.kind \in {"SearchURIOperation", "SearchQueryOperation"}
    /\ sourceRet = None
    /\ Unwrapped(outcome).tag = "Ok"
    /\ \E i \in 1..Len(Unwrapped(outcome).v.hits.hits) :
         sourceRet' =
            Some([hit |-> i,
                  ret |-> SearchHitsHitsResult_source(
                              Unwrapped(outcome).v.hits.hits[i])])
    /\ UNCHANGED <<op, pc, calls, requests, reply, outcome, successfulRet>>

Next ==
    \/ DeleteOperation_add_option
    \/ DeleteOperation_send
    \/ DeleteByQueryOperation_call_with_indexes
    \/ DeleteByQueryOperation_call_with_doc_types
    \/ DeleteByQueryOperation_call_with_query_string
    \/ DeleteByQueryOperation_call_with_query
    \/ DeleteByQueryOperation_add_option
    \/ DeleteByQueryOperation_send
    \/ SearchURIOperation_call_with_indexes
    \/ SearchURIOperation_call_with_types
    \/ SearchURIOperation_call_with_query
    \/ SearchURIOperation_add_option
    \/ SearchURIOperation_call_with_fields
    \/ SearchURIOperation_send
    \/ SearchQueryOperation_call_with_indexes
    \/ SearchQueryOperation_call_with_types
    \/ SearchQueryOperation_call_with_query
    \/ SearchQueryOperation_call_with_timeout
    \/ SearchQueryOperation_call_with_from
    \/ SearchQueryOperation_call_with_size
    \/ SearchQueryOperation_call_with_terminate_after
    \/ SearchQueryOperation_call_with_stats
    \/ SearchQueryOperation_call_with_min_score
    \/ SearchQueryOperation_add_option
    \/ SearchQueryOperation_send
    \/ Call_DeleteByQueryResult_successful
    \/ Call_SearchHitsHitsResult_source

Spec == Init /\ [][Next]_vars

(***************************************************************************)
(* Properties                                                              *)
(***************************************************************************)
\* The request, reply and result of a finished send
Req == requests[1]
Rep == Unwrapped(reply)
Out == Unwrapped(outcome)
SentBy(kind) == pc = "sent" /\ op.kind = kind

\* The positions in the call history of the calls to the methods ms
CallsOf(ms) == {i \in 1..Len(calls) : calls[i].m \in ms}
\* The argument of the last call to one of ms (which was called)
LastArg(ms) ==
    calls[CHOOSE i \in CallsOf(ms) : \A j \in CallsOf(ms) : j <= i].a
\* The (name, value) pairs the calls made so far were asked to add, in call
\* order: one per add_option! setter call and, on a SearchURIOperation, one
\* per with_query ("q") and with_fields ("fields", the names comma-joined).
CalledPairs ==
    LET adds(c) ==
            \/ c.m = "add_option"
            \/ /\ op.kind = "SearchURIOperation"
               /\ c.m \in {"with_query", "with_fields"}
        pair(c) ==
            CASE c.m = "add_option" -> c.a
              [] c.m = "with_query" -> <<"q", c.a>>
              [] c.m = "with_fields" ->
                    <<"fields", CASE c.a = <<>> -> ""
                                  [] c.a = <<"f">> -> "f"
                                  [] c.a = <<"f", "g">> -> "f,g">>
        sel == SelectSeq(calls, adds)
    IN  [i \in 1..Len(sel) |-> pair(sel[i])]
\* The names of the pairs of an option list
Names(options) == {options[i][1] : i \in 1..Len(options)}

\* C1: DeleteByQueryOperation::send ends in one of three ways, decided by
\* the reply: a transport error gives Err; status 200 gives Ok(Some(result));
\* status 404 gives Ok(None) whatever the body; any other status gives Err.
C1_SendOutcomes ==
    SentBy("DeleteByQueryOperation") =>
        IF Rep.err THEN Out.tag = "Err"
        ELSE IF Rep.status = 200 THEN Out.tag = "Ok" /\ IsSome(Out.v)
        ELSE IF Rep.status = 404 THEN Out = Ok(None)
        ELSE Out.tag = "Err"

\* C2: DeleteByQueryOperation::send carries the query in exactly one place.
\* A query string: no body, and the options sent hold ("q", string). A
\* structured query: the body {"query": <query json>}, and the options sent
\* are the builder's own, with no "q" pair.
C2_QueryInOnePlace ==
    SentBy("DeleteByQueryOperation") =>
        /\ op.query.tag = "String" =>
            /\ Req.via = "delete_op"
            /\ Req.body = None
            /\ \E i \in 1..Len(Req.url.query) :
                   Req.url.query[i] = <<"q", op.query.s>>
        /\ op.query.tag = "Document" =>
            /\ Req.via = "delete_body_op"
            /\ Req.body =
                 Some(JObject("query" :> Query_to_json(op.query.d.query)))
            /\ Req.url.query = CalledPairs
            /\ "q" \notin Names(Req.url.query)
        /\ ~(IsSome(Req.body) /\ "q" \in Names(Req.url.query))

C2_Witness ==
    /\ SentBy("DeleteByQueryOperation")
    /\ op.query.tag = "Document"
    /\ Len(Req.url.query) > 0
    /\ IsSome(Req.body)

\* C3: delete-by-id and both searches succeed only on status 200; any other
\* status, 404 included, gives Err carrying that status, whatever the body
\* (it is not decoded), and exactly one request was issued.
C3_OnlyOkOn200 ==
    (pc = "sent" /\ op.kind \in {"DeleteOperation", "SearchURIOperation",
                                 "SearchQueryOperation"}) =>
        /\ Len(requests) = 1
        /\ Out.tag = "Ok" => (~Rep.err /\ Rep.status = 200)
        /\ (~Rep.err /\ Rep.status # 200) =>
               Out = Err([kind |-> "EsError", msg |-> "Unexpected status: {}",
                          status |-> Rep.status])

C3_Witness ==
    /\ SentBy("DeleteOperation")
    /\ ~Rep.err
    /\ Rep.status = 404
    /\ Rep.body = None
    /\ Out.tag = "Err"
    /\ Out.e.status = 404

\* Whether a body lacks a key its operation requires, or holds it with the
\* wrong JSON type.
LacksRequired(kind, j) ==
    LET has(r, key, t) ==
            r.t = "Object" /\ key \in DOMAIN r.o /\ r.o[key].t = t
        shards(r) ==
            /\ has(r, "_shards", "Object")
            /\ \A k \in {"total", "successful", "failed"} :
                   has(r.o["_shards"], k, "I64")
    IN  CASE kind = "DeleteOperation" ->
                ~(/\ has(j, "found", "Boolean") /\ has(j, "_index", "String")
                  /\ has(j, "_type", "String") /\ has(j, "_id", "String")
                  /\ has(j, "_version", "I64"))
          [] kind = "DeleteByQueryOperation" ->
                ~(/\ has(j, "_indices", "Object")
                  /\ \A k \in DOMAIN j.o["_indices"].o :
                         shards(j.o["_indices"].o[k]))
          [] OTHER ->
                ~(/\ shards(j)
                  /\ has(j, "hits", "Object")
                  /\ has(j.o["hits"], "total", "I64")
                  /\ has(j.o["hits"], "hits", "Array"))

\* C4: when the status is 200 and the body is absent, or lacks a required
\* key or has it with the wrong type, send returns Err (a decode error): no
\* default, no partial result, no other outcome.
C4_DecodeFailureIsErr ==
    (/\ pc = "sent"
     /\ ~Rep.err
     /\ Rep.status = 200
     /\ (IsNone(Rep.body) \/ LacksRequired(op.kind, Unwrapped(Rep.body))))
    => Out.tag = "Err"

\* C5: the body a SearchQueryOperation sends always holds `from` and `size`
\* (0 and 10 unless set, else the last value given); holds each of `query`,
\* `timeout`, `terminate_after`, `stats`, `min_score` exactly when its with_*
\* method was called; holds no other key and no null. It is the body of the
\* request send issues.
C5_BodyKeys ==
    op.kind = "SearchQueryOperation" =>
        LET d == SearchQueryOperationBody_to_json(op.body).o
            called(m) == CallsOf({m}) # {}
            optional == {"query", "timeout", "terminate_after", "stats",
                         "min_score"}
            setter(k) == "with_" \o k
        IN  /\ {"from", "size"} \subseteq DOMAIN d
            /\ DOMAIN d \subseteq {"from", "size"} \cup optional
            /\ d["from"] = [t |-> "I64",
                            i |-> IF called("with_from")
                                  THEN LastArg({"with_from"}) ELSE 0]
            /\ d["size"] = [t |-> "I64",
                            i |-> IF called("with_size")
                                  THEN LastArg({"with_size"}) ELSE 10]
            /\ \A k \in optional : k \in DOMAIN d <=> called(setter(k))
            /\ \A k \in DOMAIN d : d[k].t # "Null"
            /\ called("with_timeout") =>
                   d["timeout"] = [t |-> "String",
                                   s |-> LastArg({"with_timeout"})]
            /\ called("with_min_score") =>
                   d["min_score"] = [t |-> "F64",
                                     f |-> LastArg({"with_min_score"})]
            /\ called("with_terminate_after") =>
                   d["terminate_after"] =
                       [t |-> "I64", i |-> LastArg({"with_terminate_after"})]
            /\ pc = "sent" =>
                   (Req.via = "post_body_op" /\ Req.body = Some(JObject(d)))

C5_Witness ==
    /\ SentBy("SearchQueryOperation")
    /\ CallsOf({"with_min_score"}) # {}
    /\ CallsOf({"with_from", "with_size"}) = {}
    /\ DOMAIN Unwrapped(Req.body).o = {"from", "size", "min_score"}

\* C6: DeleteByQueryResult::successful returns true exactly when every
\* per-index result has failed = 0 (true for an empty map), in whatever order
\* the map is iterated; and the decoded map has one entry per key of the
\* response's `_indices` object, under the same name.
C6_Successful ==
    (/\ SentBy("DeleteByQueryOperation")
     /\ Out.tag = "Ok"
     /\ IsSome(Out.v)) =>
        LET indices == Unwrapped(Out.v).indices
            raw == Unwrapped(Rep.body).o["_indices"].o
        IN  /\ DOMAIN indices = DOMAIN raw
            /\ IsSome(successfulRet) =>
                   (Unwrapped(successfulRet) <=>
                        \A k \in DOMAIN indices : indices[k].shards.failed = 0)

C6_Witness ==
    /\ SentBy("DeleteByQueryOperation")
    /\ Out.tag = "Ok"
    /\ IsSome(Out.v)
    /\ successfulRet = Some(FALSE)
    /\ DOMAIN Unwrapped(Out.v).indices = {"i1", "i2"}
    /\ Unwrapped(Out.v).indices["i1"].shards.failed = 0
    /\ Unwrapped(Out.v).indices["i2"].shards.failed = 1

\* C7: a decoded hit has source = None exactly when its JSON has no
\* `_source` key, and fields = None exactly when it has no `fields` key (a
\* key holding null or {} gives Some of that value); the typed-source
\* accessor returns the "No source field" error exactly when source is None,
\* and otherwise what decoding the stored document gives, Ok or Err.
C7_OptionalSource ==
    (/\ pc = "sent"
     /\ op.kind \in {"SearchURIOperation", "SearchQueryOperation"}
     /\ Out.tag = "Ok") =>
        LET hits == Out.v.hits.hits
            raw == Unwrapped(Rep.body).o["hits"].o["hits"].a
        IN  /\ Len(hits) = Len(raw)
            /\ \A i \in 1..Len(raw) :
                /\ IsNone(hits[i].source) <=> "_source" \notin DOMAIN raw[i].o
                /\ IsNone(hits[i].fields) <=> "fields" \notin DOMAIN raw[i].o
                /\ "_source" \in DOMAIN raw[i].o =>
                       hits[i].source = Some(raw[i].o["_source"])
                /\ "fields" \in DOMAIN raw[i].o =>
                       hits[i].fields = Some(raw[i].o["fields"])
            /\ IsSome(sourceRet) =>
                LET h == hits[Unwrapped(sourceRet).hit]
                    ret == Unwrapped(sourceRet).ret
                IN  /\ ret.tag \in {"Ok", "Err"}
                    /\ IsNone(h.source) <=>
                         ret = [tag |-> "Err",
                                e |-> [kind |-> "EsError",
                                       msg |-> "No source field"]]
                    /\ IsSome(h.source) =>
                         ret = decode_json_T(Unwrapped(h.source))

C7_Witness ==
    /\ pc = "sent"
    /\ op.kind = "SearchURIOperation"
    /\ Out.tag = "Ok"
    /\ IsSome(sourceRet)
    /\ Out.v.hits.hits[Unwrapped(sourceRet).hit].source = Some(JNull)
    /\ Out.v.hits.hits[1].source = None
    /\ Unwrapped(sourceRet).ret = Err(DecodeError)

\* C8: on a DeleteByQueryOperation the query send uses is the one given by
\* the last with_query_string / with_query call: after a last with_query the
\* body is that query's and no "q" pair is sent; after a last
\* with_query_string there is no body and the one "q" pair sent holds that
\* string.
C8_LastWriteWins ==
    (SentBy("DeleteByQueryOperation")
     /\ CallsOf({"with_query_string", "with_query"}) # {}) =>
        LET i == CHOOSE x \in CallsOf({"with_query_string", "with_query"}) :
                    \A y \in CallsOf({"with_query_string", "with_query"}) :
                        y <= x
            last == calls[i]
            qs == {k \in 1..Len(Req.url.query) : Req.url.query[k][1] = "q"}
        IN  IF last.m = "with_query"
            THEN /\ Req.via = "delete_body_op"
                 /\ Req.body = Some(JObject("query" :> Query_to_json(last.a)))
                 /\ qs = {}
            ELSE /\ Req.via = "delete_op"
                 /\ Req.body = None
                 /\ Cardinality(qs) = 1
                 /\ \A k \in qs : Req.url.query[k] = <<"q", last.a>>

C8_Witness ==
    /\ SentBy("DeleteByQueryOperation")
    /\ Len(calls) = 2
    /\ calls[1].m = "with_query_string"
    /\ calls[2].m = "with_query"
    /\ IsSome(Req.body)

\* C9: the Options list of a SearchURIOperation is exactly the pairs its
\* calls were asked to add, in call order: each with_query, with_fields and
\* add_option! setter call appends one pair, duplicates are kept, and
\* with_indexes / with_types add nothing. send passes that list on.
C9_OptionsInCallOrder ==
    op.kind = "SearchURIOperation" =>
        /\ op.options = CalledPairs
        /\ pc = "sent" => Req.url.query = CalledPairs

C9_Witness ==
    /\ op.kind = "SearchURIOperation"
    /\ Len(calls) = 2
    /\ calls[1].m = "with_query"
    /\ calls[2].m = "with_query"
    /\ op.options = <<<<"q", "b c">>, <<"q", "a">>>>

\* C10: a DeleteByQueryOperation on which no query was set sends a body-less
\* delete_op request whose options end with ("q", ""); and whenever the
\* query is a query string, the options sent are the builder's options in
\* call order followed by the "q" pair.
C10_DefaultQueryString ==
    SentBy("DeleteByQueryOperation") =>
        /\ CallsOf({"with_query_string", "with_query"}) = {} =>
            /\ Req.via = "delete_op"
            /\ Req.body = None
            /\ Req.url.query[Len(Req.url.query)] = <<"q", "">>
        /\ op.query.tag = "String" =>
            Req.url.query = Append(CalledPairs, <<"q", op.query.s>>)

C10_Witness ==
    /\ SentBy("DeleteByQueryOperation")
    /\ Len(calls) = 1
    /\ calls[1].m = "add_option"
    /\ CallsOf({"with_query_string", "with_query"}) = {}
    /\ Req.body = None
    /\ Req.url.query = <<<<"df", "x">>, <<"q", "">>>>

====
